---- MODULE Spec2Model ----
(***************************************************************************)
(* A model of submit.py, the front end that submits job scripts to a      *)
(* batch scheduler (Slurm or PBS).                                         *)
(*                                                                         *)
(* Texts (Python strings, file contents, command lines) are sequences of   *)
(* atoms.  The characters the program or the shell inspect one by one --   *)
(* space, newline, double quote, tab, and in the inputs also comma, %, @   *)
(* / and the decimal digits -- are atoms of their own; every other atom is *)
(* a run of characters that holds none of them (a literal fragment of one  *)
(* of the program's format strings, or a word of an input).  A list of     *)
(* strings (sys.argv, trueArgs, coptions) is a sequence of texts.          *)
(***************************************************************************)
EXTENDS Integers, Sequences, FiniteSets, TLC

VARIABLES
    argv,        \* sys.argv[1:] of this invocation
    S,           \* the Submit / SubmitPBS object: its fields
    fs,          \* the file system and environment the run reads
    pc,          \* pc[p]: position of invocation p in __main__ / main / writeLogEntry
    exitStatus,  \* exitStatus[p]: exit status of invocation p (-1 while it runs)
    stdout,      \* lines written to sys.stdout
    stderr,      \* stderr[p]: the texts invocation p wrote to sys.stderr
    cmdline,     \* the composed submission command (main's local)
    cmdline2,    \* what a second call of the compose operation returns
    origScript,  \* origScript[p]: the resolved script path (main's local)
    proc,        \* the scheduler process: spawn count, its stdin, its answer
    jobid,       \* jobid[p]: the job id invocation p reports and logs
    logf,        \* the shared log file: content, flock holder
    fh,          \* fh[p]: p's file object on the log (open?, buffered text)
    job          \* the job the scheduler runs later: the notification it calls

vars == <<argv, S, fs, pc, exitStatus, stdout, stderr, cmdline, cmdline2,
          origScript, proc, jobid, logf, fh, job>>

-----------------------------------------------------------------------------
(* Bounds of the model.                                                    *)

MaxOpts == 2      \* option groups on a generated command line
MaxLines == 2     \* lines of the -T/-A file
MaxRows == 3      \* rows of a generated job script
MaxCallers == 3   \* concurrent invocations writing the log
MaxPipe == 2      \* capacity of a pipe, in units of text

-----------------------------------------------------------------------------
(* Characters and Python's string primitives.                              *)

SP == " "
NL == "\n"
DQ == "\""
TAB == "\t"
CR == "\r"
COMMA == ","
PCT == "%"
AT == "@"
SLASH == "/"

\* None, False and the empty string: every use the program makes of the
\* fields that start as None or False is a truth test, and None, False and
\* "" are all false there.
None == << >>

Digit == <<"0", "1", "2", "3", "4", "5", "6", "7", "8", "9">>

Whitespace == {SP, NL, TAB, CR}

\* a text of one word
W(s) == <<s>>

RECURSIVE Join(_, _)
Join(list, sep) ==
    IF list = << >> THEN << >>
    ELSE IF Len(list) = 1 THEN list[1]
    ELSE list[1] \o sep \o Join(Tail(list), sep)

Replace(text, old, new) ==
    [i \in DOMAIN text |-> IF text[i] = old THEN new ELSE text[i]]

Contains(text, c) == \E i \in DOMAIN text : text[i] = c

\* str.find(c): index from 0, -1 when absent
Find(text, c) ==
    IF Contains(text, c)
    THEN (CHOOSE i \in DOMAIN text :
              text[i] = c /\ \A j \in 1..(i - 1) : text[j] # c) - 1
    ELSE -1

RECURSIVE Split(_, _)
Split(text, c) ==
    LET p == Find(text, c) IN
    IF p < 0 THEN <<text>>
    ELSE <<SubSeq(text, 1, p)>> \o Split(SubSeq(text, p + 2, Len(text)), c)

RECURSIVE LStrip(_)
LStrip(text) ==
    IF text # << >> /\ Head(text) \in Whitespace THEN LStrip(Tail(text)) ELSE text

RECURSIVE RStrip(_, _)
RStrip(text, chars) ==
    IF text # << >> /\ text[Len(text)] \in chars
    THEN RStrip(SubSeq(text, 1, Len(text) - 1), chars)
    ELSE text

Strip(text) == RStrip(LStrip(text), Whitespace)

IsPrefix(pre, text) == Len(pre) <= Len(text) /\ SubSeq(text, 1, Len(pre)) = pre

StartsWith(text, s) == text # << >> /\ Head(text) = s

\* iteration over a text file: the rows, each with its line terminator,
\* the last one without when the file does not end in a newline
RECURSIVE Rows(_)
Rows(text) ==
    LET p == Find(text, NL) IN
    IF text = << >> THEN << >>
    ELSE IF p < 0 THEN <<text>>
    ELSE <<SubSeq(text, 1, p + 1)>> \o Rows(SubSeq(text, p + 2, Len(text)))

RECURSIVE Str(_)
Str(n) ==
    IF n < 0 THEN <<"-">> \o Str(0 - n)
    ELSE IF n < 10 THEN <<Digit[n + 1]>>
    ELSE Str(n \div 10) \o <<Digit[(n % 10) + 1]>>

DigitValue(c) == (CHOOSE i \in DOMAIN Digit : Digit[i] = c) - 1

IsDigit(c) == \E i \in DOMAIN Digit : Digit[i] = c

RECURSIVE Decimal(_)
Decimal(ds) ==
    IF ds = << >> THEN 0
    ELSE 10 * Decimal(SubSeq(ds, 1, Len(ds) - 1)) + DigitValue(ds[Len(ds)])

\* int(text): surrounding whitespace and one sign are accepted, then at
\* least one digit and nothing but digits; anything else raises ValueError
ParseInt(text) ==
    LET t == Strip(text)
        signed == t # << >> /\ Head(t) \in {"-", "+"}
        ds == IF signed THEN Tail(t) ELSE t
        ok == ds # << >> /\ \A i \in DOMAIN ds : IsDigit(ds[i])
    IN  [ok |-> ok,
         val |-> IF ~ok THEN 0
                 ELSE IF signed /\ Head(t) = "-" THEN 0 - Decimal(ds)
                 ELSE Decimal(ds)]

\* os.path.split(path)[1]
Basename(path) ==
    IF Contains(path, SLASH)
    THEN LET last == CHOOSE i \in DOMAIN path :
                         path[i] = SLASH /\ \A j \in (i + 1)..Len(path) : path[j] # SLASH
         IN  SubSeq(path, last + 1, Len(path))
    ELSE path

-----------------------------------------------------------------------------
(* DEFAULTS and the object as the class statement and __init__ leave it.   *)

DEFAULTS ==
    [slurm |-> [class |-> "Submit", conf |-> W(".sbatchrc"),
                directive |-> "#SBATCH", jobidvar |-> "${SLURM_JOBID}"],
     pbs   |-> [class |-> "SubmitPBS", conf |-> W(".qsubrc"),
                directive |-> "#PBS", jobidvar |-> "${PBS_JOBID}"]]

\* getMode: SUBMIT_MODE or "slurm", overridden by the first -mode option
\* that has a value after it
getMode(arglist, envMode) ==
    LET hits == {i \in 1..(Len(arglist) - 1) : arglist[i] = W("-mode")} IN
    IF hits = {} THEN envMode
    ELSE arglist[(CHOOSE i \in hits : \A j \in hits : i <= j) + 1]

NewSubmit(mode) ==
    [mode |-> mode,
     dry |-> FALSE, debug |-> 0, decorate |-> TRUE,
     doneFile |-> None, array |-> None, comment |-> None, queue |-> None,
     coptions |-> << >>, foptions |-> None,
     fileArray |-> None, arrayArgs |-> FALSE,
     sendEmail |-> None, emailAlways |-> FALSE, logdir |-> None,
     confFile |-> DEFAULTS[mode].conf,
     logFile |-> W("submit.log"),
     trueArgs |-> << >>, afterArgs |-> << >>,
     scriptLibrary |-> <<W("lib")>>,
     varNames |-> << >>]

-----------------------------------------------------------------------------
(* parseArgs.                                                              *)

valuedArgs ==
    {W("-v"), W("-vv"), W("-vvv"), W("-conf"), W("-after"), W("-done"),
     W("-n"), W("-p"), W("-q"), W("-t"), W("-T"), W("-A"), W("-o"),
     W("-lib"), W("-log"), W("-mode"), W("-m"), W("-M"), W("-l")}

\* parseDirList, with every named directory present
parseDirList(dl) == Split(dl, ":")

\* The body of the loop `for a in args`, on the loop state st: the object
\* (obj), the locals mode, after and prev, and ret, which is "" while the
\* loop runs and names the early return once one is taken.
ParseStep(st, a) ==
    LET o == st.obj
        set(f, v) == [st EXCEPT !.obj = [o EXCEPT ![f] = v], !.prev = << >>]
    IN
    IF st.after THEN [st EXCEPT !.obj.trueArgs = Append(@, a)]
    ELSE IF a = W("-ls") THEN [st EXCEPT !.pmode = "list"]
    ELSE IF a = W("-w") THEN [st EXCEPT !.pmode = "lookup"]
    ELSE IF a = W("-em") THEN [st EXCEPT !.pmode = "email"]
    ELSE IF a = W("-n") THEN [st EXCEPT !.obj.decorate = FALSE]
    ELSE IF a = W("-x") THEN [st EXCEPT !.obj.dry = TRUE]
    ELSE IF a = W("-d") THEN [st EXCEPT !.obj.debug = 1]
    ELSE IF a = W("-dd") THEN [st EXCEPT !.obj.debug = 2]
    ELSE IF a \in {W("-h"), W("--help")} THEN [st EXCEPT !.ret = "usage"]
    ELSE IF st.prev = W("-mode") THEN [st EXCEPT !.prev = << >>]
    ELSE IF st.prev \in {W("-v"), W("-vv"), W("-vvv")} THEN [st EXCEPT !.ret = "view"]
    ELSE IF st.prev = W("-conf") THEN set("confFile", a)
    ELSE IF st.prev = W("-after") THEN
        IF a # W("0")
        THEN [st EXCEPT !.obj.afterArgs = Append(@, a), !.prev = << >>]
        ELSE [st EXCEPT !.prev = << >>]
    ELSE IF st.prev = W("-done") THEN set("doneFile", a)
    ELSE IF st.prev = W("-p") THEN set("comment", a)
    ELSE IF st.prev = W("-q") THEN set("queue", a)
    ELSE IF st.prev = W("-t") THEN set("array", a)
    ELSE IF st.prev = W("-T") THEN set("fileArray", a)
    ELSE IF st.prev = W("-A") THEN
        [st EXCEPT !.obj.fileArray = a, !.obj.arrayArgs = TRUE, !.prev = << >>]
    ELSE IF st.prev = W("-o") THEN
        [st EXCEPT !.obj.coptions = Append(@, Replace(a, COMMA, SP)), !.prev = << >>]
    ELSE IF st.prev = W("-lib") THEN set("scriptLibrary", parseDirList(a))
    ELSE IF st.prev = W("-log") THEN set("logFile", a)
    ELSE IF st.prev = W("-m") THEN set("sendEmail", a)
    ELSE IF st.prev = W("-M") THEN
        [st EXCEPT !.obj.sendEmail = a, !.obj.emailAlways = TRUE, !.prev = << >>]
    ELSE IF st.prev = W("-l") THEN set("logdir", a)
    ELSE IF a \in valuedArgs THEN [st EXCEPT !.prev = a]
    ELSE IF a = W("-W") THEN [st EXCEPT !.obj.coptions = Append(@, W("-W"))]
    ELSE [st EXCEPT !.obj.trueArgs = Append(@, a), !.after = TRUE]

RECURSIVE ParseLoop(_, _, _)
ParseLoop(st, args, i) ==
    IF i > Len(args) \/ st.ret # "" THEN st
    ELSE ParseLoop(ParseStep(st, args[i]), args, i + 1)

countLines(file) == Len(Rows(file.text))

\* a file-array step that leaves the limit of the argument out
FileArrayStepNoLimit(o, fa) ==
    LET parts == Split(o.fileArray, PCT)
        faname == parts[1]
        base == <<"1", "-">> \o Str(countLines(fa))
    IN  IF o.fileArray = None THEN [obj |-> o, ret |-> ""]
        ELSE IF ~fa.exists THEN [obj |-> o, ret |-> "exit3"]
        ELSE [obj |-> [o EXCEPT !.array = base, !.fileArray = faname], ret |-> ""]

\* What follows the loop when mode is "submit": the file array, then the
\* test for a script name.  fa is the file the -T/-A argument names.
FileArrayStep(o, fa) ==
    LET parts == Split(o.fileArray, PCT)
        faname == parts[1]
        base == <<"1", "-">> \o Str(countLines(fa))
    IN  IF o.fileArray = None THEN [obj |-> o, ret |-> ""]
        ELSE IF ~fa.exists THEN [obj |-> o, ret |-> "exit3"]
        ELSE [obj |-> [o EXCEPT !.array = IF Len(parts) > 1
                                           THEN base \o <<PCT>> \o parts[2]
                                           ELSE base,
                                !.fileArray = faname],
              ret |-> ""]

\* parseArgs(args) on object o: the object it leaves and how it ends:
\* "True", "False" (usage, -v, -ls, -w), "email" (sendNotification is
\* called with trueArgs), "exit3", "exit4".
parseArgs(o, args, fa) ==
    LET st == ParseLoop([obj |-> o, pmode |-> "submit", after |-> FALSE,
                         prev |-> << >>, ret |-> ""], args, 1)
        arr == FileArrayStep(st.obj, fa)
    IN  IF args = << >> THEN [obj |-> o, ret |-> "False"]
        ELSE IF st.ret # "" THEN [obj |-> st.obj, ret |-> "False"]
        ELSE IF st.pmode \in {"list", "lookup"} THEN [obj |-> st.obj, ret |-> "False"]
        ELSE IF st.pmode = "email" THEN [obj |-> st.obj, ret |-> "email"]
        ELSE IF arr.ret # "" THEN arr
        ELSE IF arr.obj.trueArgs # << >> THEN [obj |-> arr.obj, ret |-> "True"]
        ELSE [obj |-> arr.obj, ret |-> "exit4"]

-----------------------------------------------------------------------------
(* resolveScriptName, readOptions, makeCmdline.                            *)

\* resolveScriptName: the name itself when it is a file, else the first
\* library directory that holds it; << >> when sys.exit(5) is taken.
\* fs.scriptAt is "cwd", "lib" (the first library directory) or "none".
resolveScriptName(o, scriptName, scriptAt) ==
    IF scriptAt = "cwd" THEN scriptName
    ELSE IF scriptAt = "lib" /\ o.scriptLibrary # << >>
    THEN o.scriptLibrary[1] \o <<SLASH>> \o scriptName
    ELSE << >>

\* readOptions: the text of ~/confFile with \n and \r turned into spaces
readOptions(o, conf) ==
    IF conf.exists
    THEN [o EXCEPT !.foptions = Replace(Replace(conf.text, NL, SP), CR, SP)]
    ELSE o

\* one pass of the loop that quotes the arguments holding a space
QuoteArgs(args) ==
    [i \in DOMAIN args |->
        IF Contains(args[i], SP) THEN <<DQ>> \o args[i] \o <<DQ>> ELSE args[i]]

\* the -o/-e clause of sbatch, with the -a clause when there is an array
OutputClause(o, logdir, filename) ==
    IF o.array # None
    THEN <<SP, "-o", SP>> \o logdir \o filename \o <<".o%A_%a">>
         \o <<SP, "-e", SP>> \o logdir \o filename \o <<".e%A_%a">>
         \o <<SP, "-a", SP>> \o o.array
    ELSE <<SP, "-o", SP>> \o logdir \o filename \o <<".IN.o%j">>
         \o <<SP, "-e", SP>> \o logdir \o filename \o <<".IN.e%j">>

CommentClause(o) ==
    IF o.comment # None THEN <<SP, "--comment", SP, DQ>> \o o.comment \o <<DQ>>
    ELSE << >>

afterok(ids) == [i \in DOMAIN ids |-> <<"afterok:">> \o ids[i]]

\* a dependency clause that is written also for no dependencies
DependencyClauseAlways(o) ==
    <<SP, "-d", SP>> \o Join(afterok(o.afterArgs), <<COMMA>>)

DependencyClause(o) ==
    IF o.afterArgs # << >>
    THEN <<SP, "-d", SP>> \o Join(afterok(o.afterArgs), <<COMMA>>)
    ELSE << >>

QueueClause(o) ==
    IF o.queue # None THEN <<SP, "-A", SP>> \o o.queue ELSE << >>

FileOptionsClause(o) ==
    IF o.foptions # None THEN <<SP>> \o o.foptions ELSE << >>

CmdOptionsClause(o) ==
    IF o.coptions # << >> THEN <<SP>> \o Join(o.coptions, <<SP>>) ELSE << >>

\* a makeCmdline that puts the queue before the dependencies
makeCmdlineQueueFirst(o, logIsDir) ==
    LET origName == o.trueArgs[1]
        filename == Basename(origName)
        logdir == IF o.logdir # None THEN o.logdir \o <<SLASH>>
                  ELSE IF logIsDir THEN <<"log", SLASH>> ELSE << >>
        head == <<"sbatch", SP, "--parsable", SP, "-D", SP, DQ, "$(pwd)", DQ,
                  SP, "-J", SP>> \o origName
                \o OutputClause(o, logdir, filename)
                \o CommentClause(o)
                \o QueueClause(o)
                \o DependencyClause(o)
                \o FileOptionsClause(o)
                \o CmdOptionsClause(o)
        quoted == QuoteArgs(o.trueArgs)
    IN  [cmdline |-> head \o <<SP, "/dev/stdin", SP>> \o Join(Tail(quoted), <<SP>>),
         obj |-> [o EXCEPT !.trueArgs = quoted],
         raised |-> FALSE]

\* Submit.makeCmdline: the command and the object it leaves (the loop at
\* its end rewrites trueArgs).  logIsDir: os.path.isdir("log").
\* `pwd` stands in the command in backquotes; it is written $(pwd) here.
makeCmdline(o, logIsDir) ==
    LET origName == o.trueArgs[1]
        filename == Basename(origName)
        logdir == IF o.logdir # None THEN o.logdir \o <<SLASH>>
                  ELSE IF logIsDir THEN <<"log", SLASH>> ELSE << >>
        head == <<"sbatch", SP, "--parsable", SP, "-D", SP, DQ, "$(pwd)", DQ,
                  SP, "-J", SP>> \o origName
                \o OutputClause(o, logdir, filename)
                \o CommentClause(o)
                \o DependencyClause(o)
                \o QueueClause(o)
                \o FileOptionsClause(o)
                \o CmdOptionsClause(o)
        quoted == QuoteArgs(o.trueArgs)
    IN  [cmdline |-> head \o <<SP, "/dev/stdin", SP>> \o Join(Tail(quoted), <<SP>>),
         obj |-> [o EXCEPT !.trueArgs = quoted],
         raised |-> FALSE]

\* SubmitPBS.setVars: varNames after the call ("args", then arg1..argK)
argName(i) == <<"arg">> \o Str(i)

setVars(o) ==
    [o EXCEPT !.varNames =
        @ \o <<W("args")>> \o [i \in 1..(Len(o.trueArgs) - 1) |-> argName(i)]]

PBSDependencyClause(o) ==
    IF o.afterArgs # << >>
    THEN <<SP, "-W", SP, "depend=">> \o Join(afterok(o.afterArgs), <<COMMA>>)
    ELSE << >>

PBSQueueClause(o) ==
    IF o.queue # None THEN <<SP, "-q", SP>> \o o.queue ELSE << >>

PBSArrayClause(o) ==
    IF o.array # None THEN <<SP, "-t">> \o o.array ELSE << >>

\* SubmitPBS.makeCmdline(self, name)
makeCmdlinePBS(o, name) ==
    LET v == setVars(o)
        varClause == IF v.varNames # << >>
                     THEN <<SP, "-v", SP>> \o Join(v.varNames, <<COMMA>>)
                     ELSE << >>
    IN  [cmdline |-> <<"qsub", SP, "-d", SP, DQ, "$(pwd)", DQ>>
                     \o varClause
                     \o PBSDependencyClause(v)
                     \o PBSQueueClause(v)
                     \o PBSArrayClause(v)
                     \o FileOptionsClause(v)
                     \o CmdOptionsClause(v)
                     \o <<SP>> \o Join(v.trueArgs, <<SP>>),
         obj |-> v,
         raised |-> FALSE]

\* The call `self.makeCmdline()` of main: Submit's method takes no argument
\* and composes; SubmitPBS's method requires `name`, so the call raises
\* TypeError before its body runs.
CallMakeCmdline(o, logIsDir) ==
    IF DEFAULTS[o.mode].class = "SubmitPBS"
    THEN [cmdline |-> << >>, obj |-> o, raised |-> TRUE]
    ELSE makeCmdline(o, logIsDir)

-----------------------------------------------------------------------------
(* decorateScript.                                                         *)

\* os.path.dirname(__file__)
InstallDir == "/apps/submit/bin"

\* a row stays in the header: empty once stripped, a shebang, a directive
IsHeaderRow(o, row) ==
    LET srow == Strip(row) IN
    \/ Len(srow) = 0
    \/ StartsWith(srow, "#!")
    \/ StartsWith(srow, DEFAULTS[o.mode].directive)

\* the lines written on leaving the header; `date` is written $(date)
CommandlineEcho(o) ==
    <<NL, "echo", SP, "%Commandline:", SP>> \o Join(o.trueArgs, <<SP>>) \o <<NL>>

StartedEcho == <<"echo", SP, "%Started:", SP, "$(date)", NL>>

OrigPwdCapture == <<"_ORIG_PWD=$PWD", NL>>

SubmitTsCapture == <<"_SUBMIT_TS=$(date", SP, "+%s)", NL, NL>>

FileArrayLine(o) ==
    IF o.fileArray = None THEN << >>
    ELSE IF o.arrayArgs
    THEN <<"JOB_FILEARRAY_ARGS=($(sed", SP, DQ, "${SLURM_ARRAY_TASK_ID}q;d", DQ, SP>>
         \o o.fileArray \o <<"))", NL>>
    ELSE <<"JOB_FILEARRAY_LINE=$(sed", SP, DQ, "${SLURM_ARRAY_TASK_ID}q;d", DQ, SP>>
         \o o.fileArray \o <<")", NL>>

Instrumentation(o) ==
    CommandlineEcho(o) \o StartedEcho \o OrigPwdCapture \o SubmitTsCapture
    \o FileArrayLine(o)

\* the loop over the rows of the script: what is written for rows[i..]
RECURSIVE DecorateRows(_, _, _, _)
DecorateRows(o, rows, i, inHeader) ==
    IF i > Len(rows) THEN << >>
    ELSE IF inHeader /\ ~IsHeaderRow(o, rows[i])
    THEN Instrumentation(o) \o rows[i] \o DecorateRows(o, rows, i + 1, FALSE)
    ELSE rows[i] \o DecorateRows(o, rows, i + 1, inHeader)

\* self.doneFile after the @ substitution
DoneFileName(o) ==
    LET p == Find(o.doneFile, AT) IN
    IF o.doneFile # None /\ p >= 0
    THEN SubSeq(o.doneFile, 1, p) \o <<DEFAULTS[o.mode].jobidvar>>
         \o SubSeq(o.doneFile, p + 2, Len(o.doneFile))
    ELSE o.doneFile

Elapsed == <<"$(($_SUBMIT_TS2", SP, "-", SP, "$_SUBMIT_TS))">>

\* the self-invocation of the -M form and of the -m form; they differ in
\* the variable that stands for the directory
EmailCall(o, pwdvar) ==
    <<InstallDir, "/submit", SP, "-em", SP>> \o o.sendEmail
    \o <<SP, "$SLURM_JOB_ID", SP, "$_RETCODE", SP>> \o Elapsed
    \o <<SP, pwdvar, SP, DQ>> \o Join(o.trueArgs, <<SP>>) \o <<DQ>>

IfFailed == <<"if", SP, "[[", SP, DQ, "$_RETCODE", DQ, SP, "!=", SP, DQ, "0", DQ,
              SP, "]];", SP, "then", SP>>

Fi == <<";", SP, "fi">>

NotificationLine(o) ==
    IF o.sendEmail = None THEN << >>
    ELSE IF o.emailAlways THEN EmailCall(o, "$_ORIG_PWD") \o <<NL>>
    ELSE IfFailed \o EmailCall(o, "$ORIG_PWD") \o Fi \o <<NL>>

Trailer(o) ==
    <<"_RETCODE=$?", NL>>
    \o (IF o.doneFile # None
        THEN <<"echo", SP, "$_RETCODE", SP, ">", SP>> \o DoneFileName(o) \o <<NL>>
        ELSE << >>)
    \o <<"echo", SP, "%Terminated:", SP, "$(date)", NL>>
    \o <<"_SUBMIT_TS2=$(date", SP, "+%s)", NL>>
    \o <<"echo", SP, "%Elapsed:", SP>> \o Elapsed \o <<SP, "seconds", NL>>
    \o NotificationLine(o)
    \o <<"exit", SP, "$_RETCODE", NL>>

\* decorateScript(infile, out): the text written to out, and the object
\* it leaves (doneFile is rewritten in place)
decorateScript(o, script) ==
    [out |-> DecorateRows(o, Rows(script), 1, TRUE) \o Trailer(o),
     obj |-> [o EXCEPT !.doneFile = DoneFileName(o)]]

-----------------------------------------------------------------------------
(* The job under the scheduler: the shell reads the notification line of   *)
(* the decorated script, and the -em invocation it makes.                  *)

\* unquoted expansion of a value: it is split into fields at its spaces
RECURSIVE Fields(_, _, _)
Fields(value, k, acc) ==
    IF k > Len(value) THEN acc
    ELSE IF value[k] = SP
    THEN Fields(value, k + 1,
                [acc EXCEPT !.words = IF acc.has THEN Append(@, acc.cur) ELSE @,
                            !.cur = << >>, !.has = FALSE])
    ELSE Fields(value, k + 1, [acc EXCEPT !.cur = Append(@, value[k]), !.has = TRUE])

\* The words the shell makes of a simple command: double quotes group,
\* unquoted spaces separate, $NAME is replaced by its value (nothing when
\* unset; split into fields when unquoted), $((...)) by the number it
\* computes.  env maps the variable references to their values.
RECURSIVE ShellScan(_, _, _, _, _)
ShellScan(cmd, i, acc, env, elapsed) ==
    IF i > Len(cmd)
    THEN IF acc.has THEN Append(acc.words, acc.cur) ELSE acc.words
    ELSE LET c == cmd[i] IN
         IF c = DQ
         THEN ShellScan(cmd, i + 1, [acc EXCEPT !.inQ = ~@, !.has = TRUE], env, elapsed)
         ELSE IF c = SP /\ ~acc.inQ
         THEN ShellScan(cmd, i + 1,
                        [acc EXCEPT !.words = IF acc.has THEN Append(@, acc.cur) ELSE @,
                                    !.cur = << >>, !.has = FALSE], env, elapsed)
         ELSE IF c = Elapsed[1] /\ IsPrefix(Elapsed, SubSeq(cmd, i, Len(cmd)))
         THEN ShellScan(cmd, i + Len(Elapsed),
                        [acc EXCEPT !.cur = @ \o elapsed, !.has = TRUE], env, elapsed)
         ELSE IF c \in DOMAIN env
         THEN IF acc.inQ
              THEN ShellScan(cmd, i + 1,
                             [acc EXCEPT !.cur = @ \o env[c], !.has = TRUE], env, elapsed)
              ELSE ShellScan(cmd, i + 1, Fields(env[c], 1, acc), env, elapsed)
         ELSE ShellScan(cmd, i + 1,
                        [acc EXCEPT !.cur = Append(@, c), !.has = TRUE], env, elapsed)

ShellWords(cmd, env, elapsed) ==
    ShellScan(cmd, 1, [cur |-> << >>, has |-> FALSE, words |-> << >>, inQ |-> FALSE],
              env, elapsed)

HasRow(text, row) == LET rows == Rows(text) IN \E i \in DOMAIN rows : rows[i] = row

\* the rows of a script that call `submit -em`, bare or under `if ... fi`
EmailRows(text) ==
    LET rows == Rows(text) IN
    {i \in DOMAIN rows :
        \/ IsPrefix(<<InstallDir, "/submit", SP, "-em">>, rows[i])
        \/ IsPrefix(IfFailed \o <<InstallDir, "/submit", SP, "-em">>, rows[i])}

\* The variables of the shell when it reaches the notification line:
\* SLURM_JOB_ID from the scheduler, the others only if the line that
\* assigns them is a line of the script.  ORIG_PWD is assigned nowhere.
JobEnv(text, id, rc, pwd) ==
    [v \in {"$SLURM_JOB_ID", "$_RETCODE", "$_ORIG_PWD", "$ORIG_PWD"} |->
        IF v = "$SLURM_JOB_ID" THEN id
        ELSE IF v = "$_RETCODE" /\ HasRow(text, <<"_RETCODE=$?", NL>>) THEN rc
        ELSE IF v = "$_ORIG_PWD" /\ HasRow(text, OrigPwdCapture) THEN pwd
        ELSE << >>]

\* The argument list of the self-invocation the job makes: called is
\* FALSE when the script has no notification line, when the line is
\* guarded and the guard fails, or when _SUBMIT_TS is unset and the
\* arithmetic expansion is a syntax error.
EmailInvocation(text, id, rc, pwd) ==
    LET rows == Rows(text)
        env == JobEnv(text, id, rc, pwd)
        calls == EmailRows(text)
        i == CHOOSE r \in calls : TRUE
        row == RStrip(rows[i], {NL})
        guarded == IsPrefix(IfFailed, row)
        cmd == IF guarded
               THEN SubSeq(row, Len(IfFailed) + 1, Len(row) - Len(Fi))
               ELSE row
    IN  IF calls = {} THEN [called |-> FALSE, args |-> << >>]
        ELSE IF guarded /\ env["$_RETCODE"] = W("0") THEN [called |-> FALSE, args |-> << >>]
        ELSE IF ~HasRow(text, SubSeq(SubmitTsCapture, 1, 4))
        THEN [called |-> FALSE, args |-> << >>]
        ELSE [called |-> TRUE, args |-> Tail(ShellWords(cmd, env, W("5")))]

\* sendNotification(args): the six-way unpacking; ValueError otherwise
sendNotification(args) ==
    IF Len(args) = 6
    THEN [raised |-> FALSE,
          email |-> args[1], jobid |-> args[2], retcode |-> args[3],
          seconds |-> args[4], pwd |-> args[5], cmdline |-> args[6]]
    ELSE [raised |-> TRUE,
          email |-> << >>, jobid |-> << >>, retcode |-> << >>,
          seconds |-> << >>, pwd |-> << >>, cmdline |-> << >>]

-----------------------------------------------------------------------------
(* The invocations.  Invocation 1 runs __main__ from the start; the others *)
(* are concurrent invocations that have reached writeLogEntry.             *)

Procs == 1..MaxCallers

Exit(p, status) ==
    /\ pc' = [pc EXCEPT ![p] = "done"]
    /\ exitStatus' = [exitStatus EXCEPT ![p] = status]

Warn(p, text) == stderr' = [stderr EXCEPT ![p] = Append(@, text)]

ModeName(m) ==
    IF m = W("slurm") THEN "slurm" ELSE IF m = W("pbs") THEN "pbs" ELSE "invalid"

\* the files a -T/-A argument may name: none, or one of 0..MaxLines lines,
\* the last line with or without its newline
ArrayFileText(n, terminated) ==
    LET line(i) == <<"sample", Digit[(i % 10) + 1], TAB, "r1.fq", NL>>
        full == [i \in 1..n |-> line(i)]
        flat == Join(full, << >>)
    IN  IF n > 0 /\ ~terminated THEN SubSeq(flat, 1, Len(flat) - 1) ELSE flat

ArrayFiles ==
    {[exists |-> FALSE, text |-> << >>]}
    \cup {[exists |-> TRUE, text |-> ArrayFileText(n, TRUE)] : n \in 0..MaxLines}
    \cup {[exists |-> TRUE, text |-> ArrayFileText(MaxLines, FALSE)]}

NoFile == [exists |-> FALSE, text |-> << >>]

\* __main__ up to the return of parseArgs
Start ==
    /\ pc[1] = "start"
    /\ LET m == ModeName(getMode(argv, fs.envMode))
           r == parseArgs(NewSubmit(m), argv, fs.fa)
           em == sendNotification(r.obj.trueArgs)
       IN  IF m = "invalid"
           THEN /\ Warn(1, W("Error: mode should be one of slurm, pbs."))
                /\ Exit(1, 0)
                /\ UNCHANGED <<S, job>>
           ELSE /\ S' = r.obj
                /\ CASE r.ret = "True" ->
                          /\ pc' = [pc EXCEPT ![1] = "main"]
                          /\ UNCHANGED <<exitStatus, stderr, job>>
                     [] r.ret = "False" ->
                          Exit(1, 0) /\ UNCHANGED <<stderr, job>>
                     [] r.ret = "email" ->
                          /\ job' = [job EXCEPT !.state = "notified", !.message = em]
                          /\ Exit(1, IF em.raised THEN 1 ELSE 0)
                          /\ IF em.raised
                             THEN Warn(1, W("ValueError: wrong number of values to unpack"))
                             ELSE UNCHANGED stderr
                     [] r.ret = "exit3" ->
                          /\ Warn(1, <<"Error: file does not exist:", SP>>
                                     \o Split(r.obj.fileArray, PCT)[1])
                          /\ Exit(1, 3)
                          /\ UNCHANGED job
                     [] r.ret = "exit4" ->
                          /\ Warn(1, W("Error: missing script name. Use -h for help."))
                          /\ Exit(1, 4)
                          /\ UNCHANGED job
    /\ UNCHANGED <<argv, fs, stdout, cmdline, cmdline2, origScript, proc, jobid, logf, fh>>

\* main: resolveScriptName
Resolve ==
    /\ pc[1] = "main"
    /\ LET path == resolveScriptName(S, S.trueArgs[1], fs.scriptAt) IN
       IF path = << >>
       THEN /\ Warn(1, <<"Error: script not found:", SP>> \o S.trueArgs[1])
            /\ Exit(1, 5)
            /\ UNCHANGED origScript
       ELSE /\ origScript' = [origScript EXCEPT ![1] = path]
            /\ pc' = [pc EXCEPT ![1] = "resolved"]
            /\ UNCHANGED <<exitStatus, stderr>>
    /\ UNCHANGED <<argv, S, fs, stdout, cmdline, cmdline2, proc, jobid, logf, fh, job>>

\* An exception that reaches __main__: with -dd main is called outside the
\* try statement and the interpreter ends with a traceback and status 1;
\* otherwise it is reported as "Error: ..." with status 6.
Raise(o, what) ==
    /\ Warn(1, <<(IF o.debug > 1 THEN "Traceback:" ELSE "Error:"), SP>> \o what)
    /\ Exit(1, IF o.debug > 1 THEN 1 ELSE 6)

\* main: readOptions and the call of makeCmdline
Compose ==
    /\ pc[1] = "resolved"
    /\ LET o == readOptions(S, fs.conf)
           c == CallMakeCmdline(o, fs.logIsDir)
       IN  /\ S' = c.obj
           /\ IF c.raised
              THEN /\ Raise(o, W("makeCmdline() missing 1 required positional argument: name"))
                   /\ UNCHANGED cmdline
              ELSE /\ cmdline' = c.cmdline
                   /\ pc' = [pc EXCEPT ![1] = "composed"]
                   /\ UNCHANGED <<exitStatus, stderr>>
    /\ UNCHANGED <<argv, fs, stdout, cmdline2, origScript, proc, jobid, logf, fh, job>>

\* main: the debug output and the decision to submit
DebugDry ==
    /\ pc[1] = "composed"
    /\ LET d == decorateScript(S, fs.script)
           said == IF S.debug > 0
                   THEN <<<<"Executing:", SP>> \o cmdline \o <<NL>>>> ELSE << >>
           shown == IF S.debug > 1 THEN <<d.out>> ELSE << >>
           warned == IF S.debug <= 1 /\ ~S.dry /\ ~fs.cwdOK
                     THEN <<W("Warning: current directory is not writeable.")>>
                     ELSE << >>
       IN  /\ stderr' = [stderr EXCEPT ![1] = @ \o said \o shown \o warned]
           /\ S' = IF S.debug > 1 THEN [d.obj EXCEPT !.dry = TRUE] ELSE S
           /\ IF S.debug > 1 \/ S.dry
              THEN Exit(1, 0)
              ELSE pc' = [pc EXCEPT ![1] = "spawn"] /\ UNCHANGED exitStatus
    /\ UNCHANGED <<argv, fs, stdout, cmdline, cmdline2, origScript, proc, jobid, logf, fh, job>>

\* submitScript: Popen
Spawn ==
    /\ pc[1] = "spawn"
    /\ proc' = [proc EXCEPT !.spawned = @ + 1, !.cmdline = cmdline]
    /\ pc' = [pc EXCEPT ![1] = "feed"]
    /\ UNCHANGED <<argv, S, fs, exitStatus, stdout, stderr, cmdline, cmdline2,
                   origScript, jobid, logf, fh, job>>

\* submitScript: the script, decorated or not, written to the child's
\* stdin, and stdin closed
Feed ==
    /\ pc[1] = "feed"
    /\ LET d == decorateScript(S, fs.script) IN
       /\ proc' = [proc EXCEPT !.stdin = IF S.decorate THEN d.out ELSE fs.script,
                               !.closed = TRUE]
       /\ S' = IF S.decorate THEN d.obj ELSE S
    /\ pc' = [pc EXCEPT ![1] = "wait"]
    /\ UNCHANGED <<argv, fs, exitStatus, stdout, stderr, cmdline, cmdline2,
                   origScript, jobid, logf, fh, job>>

\* submitScript: proc.wait() returns once the scheduler command has
\* written its answer and ended
Wait ==
    /\ pc[1] = "wait"
    /\ proc' = [proc EXCEPT !.exited = TRUE, !.out = fs.answer.out, !.err = fs.answer.err]
    /\ pc' = [pc EXCEPT ![1] = "read"]
    /\ UNCHANGED <<argv, S, fs, exitStatus, stdout, stderr, cmdline, cmdline2,
                   origScript, jobid, logf, fh, job>>

\* proc.stdout.readline()
readline(text) == IF text = << >> THEN << >> ELSE Rows(text)[1]

\* a submitScript that looks at the error text only when the output is
\* not an integer
ReadResultOutputFirst ==
    /\ pc[1] = "read"
    /\ LET result == RStrip(readline(proc.out), {CR, NL})
           error == proc.err
           n == ParseInt(result)
       IN  IF n.ok
           THEN /\ jobid' = [jobid EXCEPT ![1] = n.val]
                /\ pc' = [pc EXCEPT ![1] = "report"]
                /\ UNCHANGED <<exitStatus, stderr>>
           ELSE IF error # << >>
           THEN Warn(1, error) /\ Exit(1, 2) /\ UNCHANGED jobid
           ELSE /\ Raise(S, <<"invalid literal for int():", SP>> \o result)
                /\ UNCHANGED jobid
    /\ UNCHANGED <<argv, S, fs, stdout, cmdline, cmdline2, origScript, proc, logf, fh, job>>

\* submitScript: the answer is read; sys.exit(2) on any error text, else
\* int(result), whose ValueError reaches __main__
ReadResult ==
    /\ pc[1] = "read"
    /\ LET result == RStrip(readline(proc.out), {CR, NL})
           error == proc.err
           n == ParseInt(result)
       IN  IF error # << >>
           THEN Warn(1, error) /\ Exit(1, 2) /\ UNCHANGED jobid
           ELSE IF ~n.ok
           THEN /\ Raise(S, <<"invalid literal for int():", SP>> \o result)
                /\ UNCHANGED jobid
           ELSE /\ jobid' = [jobid EXCEPT ![1] = n.val]
                /\ pc' = [pc EXCEPT ![1] = "report"]
                /\ UNCHANGED <<exitStatus, stderr>>
    /\ UNCHANGED <<argv, S, fs, stdout, cmdline, cmdline2, origScript, proc, logf, fh, job>>

\* a main that prints the job id and does not call writeLogEntry
ReportWithoutLog ==
    /\ pc[1] = "report"
    /\ IF jobid[1] > 0
       THEN stdout' = Append(stdout, Str(jobid[1]) \o <<NL>>)
       ELSE UNCHANGED stdout
    /\ Exit(1, 0)
    /\ UNCHANGED <<argv, S, fs, stderr, cmdline, cmdline2, origScript, proc, jobid, logf, fh, job>>

\* main: a positive job id is printed, and then logged
Report ==
    /\ pc[1] = "report"
    /\ IF jobid[1] > 0
       THEN /\ stdout' = Append(stdout, Str(jobid[1]) \o <<NL>>)
            /\ pc' = [pc EXCEPT ![1] = "log"]
            /\ UNCHANGED exitStatus
       ELSE Exit(1, 0) /\ UNCHANGED stdout
    /\ UNCHANGED <<argv, S, fs, stderr, cmdline, cmdline2, origScript, proc, jobid, logf, fh, job>>

-----------------------------------------------------------------------------
(* writeLogEntry, statement by statement.  The file object buffers what is *)
(* written to it: the text reaches the file when the buffer is flushed,    *)
(* which for a record this short is when the with statement closes the     *)
(* file.                                                                   *)

LogRecord(p) ==
    <<"2026-11-02", TAB, "23:46:00.000000", TAB>> \o Str(jobid[p])
    \o <<TAB, "user", TAB>> \o Basename(origScript[p])
    \o <<TAB, "/home/user/run", NL>>

LogWarning == W("Warning: log file does not exist or is not writable.")

\* an except clause that gives the warning and ends the run with status 1
LogFailedFatal(p) ==
    /\ Warn(p, LogWarning)
    /\ Exit(p, 1)

\* the except clause: the warning, and writeLogEntry returns
LogFailed(p) ==
    /\ Warn(p, LogWarning)
    /\ Exit(p, 0)

\* open(self.logFile, "a")
LogOpen(p) ==
    /\ pc[p] = "log"
    /\ \E ok \in BOOLEAN :
        IF ok
        THEN /\ fh' = [fh EXCEPT ![p] = [open |-> TRUE, buf |-> << >>]]
             /\ pc' = [pc EXCEPT ![p] = "lock"]
             /\ UNCHANGED <<exitStatus, stderr>>
        ELSE LogFailed(p) /\ UNCHANGED fh
    /\ UNCHANGED <<argv, S, fs, stdout, cmdline, cmdline2, origScript, proc, jobid,
                   logf, job>>

\* fcntl.flock(f, LOCK_EX): waits while another open file holds the lock
LogLock(p) ==
    /\ pc[p] = "lock"
    /\ \/ /\ logf.holder = 0
          /\ logf' = [logf EXCEPT !.holder = p]
          /\ pc' = [pc EXCEPT ![p] = "write"]
          /\ UNCHANGED <<exitStatus, stderr, fh>>
       \/ /\ LogFailed(p)
          /\ fh' = [fh EXCEPT ![p] = [open |-> FALSE, buf |-> << >>]]
          /\ UNCHANGED logf
    /\ UNCHANGED <<argv, S, fs, stdout, cmdline, cmdline2, origScript, proc, jobid, job>>

\* f.write(record): into the buffer of the file object
LogWrite(p) ==
    /\ pc[p] = "write"
    /\ fh' = [fh EXCEPT ![p].buf = @ \o LogRecord(p)]
    /\ pc' = [pc EXCEPT ![p] = "unlock"]
    /\ UNCHANGED <<argv, S, fs, exitStatus, stdout, stderr, cmdline, cmdline2,
                   origScript, proc, jobid, logf, job>>

\* finally: fcntl.flock(f, LOCK_UN)
LogUnlock(p) ==
    /\ pc[p] = "unlock"
    /\ logf' = [logf EXCEPT !.holder = 0]
    /\ pc' = [pc EXCEPT ![p] = "close"]
    /\ UNCHANGED <<argv, S, fs, exitStatus, stdout, stderr, cmdline, cmdline2,
                   origScript, proc, jobid, fh, job>>

\* the end of the with statement: f.close() flushes the buffer to the
\* file, in append mode; a failed flush raises into the except clause
LogClose(p) ==
    /\ pc[p] = "close"
    /\ fh' = [fh EXCEPT ![p] = [open |-> FALSE, buf |-> << >>]]
    /\ \E ok \in BOOLEAN :
        IF ok
        THEN /\ logf' = [logf EXCEPT !.content = @ \o fh[p].buf]
             /\ Exit(p, 0)
             /\ UNCHANGED stderr
        ELSE LogFailed(p) /\ UNCHANGED logf
    /\ UNCHANGED <<argv, S, fs, stdout, cmdline, cmdline2, origScript, proc, jobid, job>>

-----------------------------------------------------------------------------
(* The job, once the scheduler has accepted it.                            *)

JobCwd == W("/home/user/run")

\* the scheduler runs the script it was given; rc is the status of the
\* last command of the body
JobRun ==
    /\ pc[1] = "done"
    /\ jobid[1] > 0
    /\ job.state = "none"
    /\ \E rc \in {0, 1} :
        LET inv == EmailInvocation(proc.stdin, Str(jobid[1]), Str(rc), JobCwd) IN
        job' = [job EXCEPT !.state = IF inv.called THEN "calling" ELSE "finished",
                           !.rc = rc, !.args = inv.args]
    /\ UNCHANGED <<argv, S, fs, pc, exitStatus, stdout, stderr, cmdline, cmdline2,
                   origScript, proc, jobid, logf, fh>>

\* the invocation `submit -em ...` the job makes: __main__, parseArgs,
\* sendNotification
Notify ==
    /\ job.state = "calling"
    /\ LET m == ModeName(getMode(job.args, fs.envMode))
           r == parseArgs(NewSubmit(m), job.args, NoFile)
       IN  job' = [job EXCEPT !.state = "notified",
                              !.message = sendNotification(r.obj.trueArgs)]
    /\ UNCHANGED <<argv, S, fs, pc, exitStatus, stdout, stderr, cmdline, cmdline2,
                   origScript, proc, jobid, logf, fh>>

-----------------------------------------------------------------------------
(* The compose operation called directly, and called again.                *)

\* compose for the backend of o: makeCmdline(), or makeCmdline(name)
compose(o, name, logIsDir) ==
    IF DEFAULTS[o.mode].class = "SubmitPBS"
    THEN makeCmdlinePBS(o, name)
    ELSE makeCmdline(o, logIsDir)

\* SubmitPBS.makeCmdline called with the script it is to name
ComposePBS ==
    /\ pc[1] = "resolved"
    /\ S.mode = "pbs"
    /\ LET c == compose(readOptions(S, fs.conf), origScript[1], fs.logIsDir) IN
       /\ S' = c.obj
       /\ cmdline' = c.cmdline
    /\ pc' = [pc EXCEPT ![1] = "composed"]
    /\ UNCHANGED <<argv, fs, exitStatus, stdout, stderr, cmdline2, origScript, proc,
                   jobid, logf, fh, job>>

\* the same operation called a second time on the same object
ComposeAgain ==
    /\ pc[1] = "composed"
    /\ LET c == compose(S, origScript[1], fs.logIsDir) IN
       /\ S' = c.obj
       /\ cmdline2' = c.cmdline
    /\ pc' = [pc EXCEPT ![1] = "composed2"]
    /\ UNCHANGED <<argv, fs, exitStatus, stdout, stderr, cmdline, origScript, proc,
                   jobid, logf, fh, job>>

-----------------------------------------------------------------------------
(* The inputs: command lines, files, answers of the scheduler.             *)

RECURSIVE Flatten(_)
Flatten(seqs) == IF seqs = << >> THEN << >> ELSE Head(seqs) \o Flatten(Tail(seqs))

\* the sequences of at most n members of set
SeqsUpTo(set, n) == UNION {[1..k -> set] : k \in 0..n}

ScriptName == W("job.qsub")

SpacedArg == <<"a", SP, "b">>

ArgLists == {<< >>, <<W("x"), SpacedArg>>}

ComposeUnits ==
    {<<W("-after"), <<"1", "0", "0">>>>, <<W("-after"), W("0")>>,
     <<W("-p"), W("run-42")>>, <<W("-q"), W("bio")>>,
     <<W("-o"), <<"--mem=10G", COMMA, "--time=20:00:00">>>>,
     <<W("-W")>>, <<W("-l"), W("out")>>,
     <<W("-t"), <<"0", "-", "1", "5", PCT, "4">>>>,
     <<W("-T"), <<"list.txt", PCT, "4">>>>, <<W("-A"), W("list.txt")>>,
     <<W("-T"), <<"list.txt", PCT, "4", PCT, "2">>>>,
     <<W("-mode"), W("pbs")>>}

\* the request of the scenario: comment run-42, queue bio, -after 100 -after 0
ScenarioArgv ==
    <<W("-p"), W("run-42"), W("-q"), W("bio"), W("-after"), <<"1", "0", "0">>,
      W("-after"), W("0"), ScriptName>>

\* a request with every clause: array, comment, dependencies, queue, options
FullArgv ==
    <<W("-t"), <<"0", "-", "1", "5", PCT, "4">>, W("-o"), W("-N1"),
      W("-p"), W("run-42"), W("-after"), W("7"), W("-after"), <<"1", "0", "0">>,
      W("-q"), W("bio"), W("-o"), <<"--mem=10G", COMMA, "--time=20:00:00">>,
      <<"dir", SLASH, "job.qsub">>, W("x"), SpacedArg>>

ComposeArgvs ==
    {Flatten(opts) \o <<ScriptName>> \o args :
        opts \in SeqsUpTo(ComposeUnits, MaxOpts), args \in ArgLists}
    \cup {ScenarioArgv, FullArgv}

RunUnits ==
    {<<W("-x")>>, <<W("-d")>>, <<W("-dd")>>, <<W("-n")>>,
     <<W("-mode"), W("pbs")>>, <<W("-M"), W("u@x.org")>>,
     <<W("-T"), <<"list.txt", PCT, "4">>>>, <<W("-after"), <<"1", "0", "0">>>>}

RunArgvs ==
    {Flatten(opts) \o tail :
        opts \in SeqsUpTo(RunUnits, MaxOpts),
        tail \in {<< >>, <<ScriptName>>, <<ScriptName, SpacedArg>>}}

DecorateArgvs ==
    {<<ScriptName>>,
     <<ScriptName, W("x"), SpacedArg>>,
     <<W("-m"), W("u@x.org"), ScriptName, W("x")>>,
     <<W("-M"), W("u@x.org"), ScriptName, W("x")>>,
     <<W("-M"), W("u@x.org"), ScriptName, SpacedArg>>,
     <<W("-done"), <<"done.", AT, ".txt">>, ScriptName>>,
     <<W("-T"), <<"list.txt", PCT, "4">>, ScriptName>>,
     <<W("-A"), W("list.txt"), W("-m"), W("u@x.org"), ScriptName>>}

\* the rows of the generated scripts
Shebang == <<"#!", "/bin/bash", NL>>
Directive == <<"#SBATCH", SP, "--mem=1G", NL>>
Blank == <<NL>>
Command == <<"echo", SP, "hi", NL>>

RowKinds == {Shebang, Directive, Blank, Command}

\* every script of at most MaxRows rows, its last line ending in a
\* newline or not
Scripts ==
    LET whole == {Flatten(rows) : rows \in SeqsUpTo(RowKinds, MaxRows)}
    IN  whole \cup {SubSeq(t, 1, Len(t) - 1) : t \in whole \ {<< >>}}

PlainScript == Shebang \o Directive \o Command

\* what the scheduler command writes on its output and on its error channel
Outputs ==
    {<< >>,
     <<"1", "2", "3", "4", "5", NL>>,
     <<"4", "2", CR, NL, "note", NL>>,
     <<"0", NL>>,
     <<"1", "2", ";", "hpc", NL>>,
     <<"Submitted", SP, "batch", SP, "job", SP, "7", NL>>}

SchedulerError == <<"sbatch:", SP, "error:", SP, "invalid", SP, "option", NL>>

Answers == [out : Outputs, err : {<< >>, SchedulerError}]

Accepted == [out |-> <<"4", "2", NL>>, err |-> << >>]

ConfFiles ==
    {NoFile, [exists |-> TRUE, text |-> <<"--mem=4G", NL, "--time=2:00", NL>>]}

UsesFileArray(args) == \E i \in DOMAIN args : args[i] \in {W("-T"), W("-A")}

OldLog ==
    <<"2026-11-01", TAB, "10:00:00.000000", TAB, "9", "9", TAB, "user", TAB,
      "old.qsub", TAB, "/home/user/old", NL>>

NoMessage == sendNotification(<< >>)

\* the state of an invocation before __main__ runs, for a command line and
\* an environment
\* the three pipes of Popen and the child at their far end, for the runs
\* that do not look into them: see the pipe-level actions below
NoPipes ==
    [cap |-> [in |-> 0, out |-> 0, err |-> 0], script |-> 0,
     in |-> 0, out |-> 0, err |-> 0,
     order |-> "none", phase |-> "none", toOut |-> 0, toErr |-> 0]

Begin(args, env) ==
    /\ argv = args
    /\ fs = env
    /\ S = NewSubmit(IF ModeName(getMode(args, env.envMode)) = "invalid"
                     THEN "slurm" ELSE ModeName(getMode(args, env.envMode)))
    /\ pc = [p \in Procs |-> IF p = 1 THEN "start" ELSE "idle"]
    /\ exitStatus = [p \in Procs |-> -1]
    /\ stdout = << >>
    /\ stderr = [p \in Procs |-> << >>]
    /\ cmdline = << >>
    /\ cmdline2 = << >>
    /\ origScript = [p \in Procs |-> << >>]
    /\ proc = [spawned |-> 0, cmdline |-> << >>, stdin |-> << >>, closed |-> FALSE,
               exited |-> FALSE, out |-> << >>, err |-> << >>, pipe |-> NoPipes]
    /\ jobid = [p \in Procs |-> 0]
    /\ logf = [content |-> OldLog, holder |-> 0]
    /\ fh = [p \in Procs |-> [open |-> FALSE, buf |-> << >>]]
    /\ job = [state |-> "none", rc |-> 0, args |-> << >>, message |-> NoMessage]

Env(fa, at, script, conf, logIsDir, answer, cwdOK) ==
    [envMode |-> W("slurm"), fa |-> fa, scriptAt |-> at, script |-> script,
     conf |-> conf, logIsDir |-> logIsDir, answer |-> answer, cwdOK |-> cwdOK]

\* whole runs: many command lines and answers, one script
Init ==
    \E args \in RunArgvs, at \in {"cwd", "none"}, answer \in Answers,
       fa \in {NoFile, [exists |-> TRUE, text |-> ArrayFileText(MaxLines, TRUE)]} :
        /\ (fa.exists => UsesFileArray(args))
        /\ Begin(args, Env(fa, at, PlainScript, NoFile, FALSE, answer, TRUE))

\* decoration: few command lines, every script
InitDecorate ==
    \E args \in DecorateArgvs, script \in Scripts :
        Begin(args, Env([exists |-> TRUE, text |-> ArrayFileText(MaxLines, TRUE)],
                        "cwd", script, NoFile, FALSE, Accepted, TRUE))

\* composition: many command lines, every option source
InitCompose ==
    \E args \in ComposeArgvs, fa \in ArrayFiles, conf \in ConfFiles,
       logIsDir \in BOOLEAN :
        /\ (fa # NoFile => UsesFileArray(args))
        /\ Begin(args, Env(fa, "lib", PlainScript, conf, logIsDir, Accepted, TRUE))

\* concurrent callers of writeLogEntry
InitLog ==
    /\ argv = <<ScriptName>>
    /\ fs = Env(NoFile, "cwd", PlainScript, NoFile, FALSE, Accepted, TRUE)
    /\ S = [NewSubmit("slurm") EXCEPT !.trueArgs = <<ScriptName>>]
    /\ pc = [p \in Procs |-> "log"]
    /\ exitStatus = [p \in Procs |-> -1]
    /\ stdout = << >>
    /\ stderr = [p \in Procs |-> << >>]
    /\ cmdline = << >>
    /\ cmdline2 = << >>
    /\ origScript = [p \in Procs |-> ScriptName]
    /\ proc = [spawned |-> 0, cmdline |-> << >>, stdin |-> << >>, closed |-> FALSE,
               exited |-> FALSE, out |-> << >>, err |-> << >>, pipe |-> NoPipes]
    /\ jobid = [p \in Procs |-> 100 + p]
    /\ logf \in {[content |-> c, holder |-> 0] : c \in {<< >>, OldLog}}
    /\ fh = [p \in Procs |-> [open |-> FALSE, buf |-> << >>]]
    /\ job = [state |-> "none", rc |-> 0, args |-> << >>, message |-> NoMessage]

Next ==
    \/ Start
    \/ Resolve
    \/ Compose
    \/ DebugDry
    \/ Spawn
    \/ Feed
    \/ Wait
    \/ ReadResult
    \/ Report
    \/ \E p \in Procs : LogOpen(p)
    \/ \E p \in Procs : LogLock(p)
    \/ \E p \in Procs : LogWrite(p)
    \/ \E p \in Procs : LogUnlock(p)
    \/ \E p \in Procs : LogClose(p)
    \/ JobRun
    \/ Notify

Spec == Init /\ [][Next]_vars

SpecDecorate == InitDecorate /\ [][Next]_vars

NextCompose ==
    \/ Start
    \/ Resolve
    \/ Compose
    \/ ComposePBS
    \/ ComposeAgain

SpecCompose == InitCompose /\ [][NextCompose]_vars

NextLog ==
    \/ \E p \in Procs : LogOpen(p)
    \/ \E p \in Procs : LogLock(p)
    \/ \E p \in Procs : LogWrite(p)
    \/ \E p \in Procs : LogUnlock(p)
    \/ \E p \in Procs : LogClose(p)

SpecLog == InitLog /\ [][NextLog]_vars

-----------------------------------------------------------------------------
(* submitScript at the level of the pipes.  Popen connects the child's     *)
(* stdin, stdout and stderr to three pipes of bounded capacity.  A write   *)
(* to a full pipe and a read of an empty pipe that is still open wait.     *)
(* The parent writes the script, closes stdin, waits for the child to end  *)
(* and only then reads stdout and stderr.  The child reads its stdin to    *)
(* the end and writes its answer, in either order, and ends.  Texts are    *)
(* counted in units; proc.pipe holds the counts.                           *)

\* proc.stdin.write(...): one more unit of the script goes into the pipe
PipeWrite ==
    /\ pc[1] = "feed"
    /\ proc.pipe.script > 0
    /\ proc.pipe.in < proc.pipe.cap.in
    /\ proc' = [proc EXCEPT !.pipe.script = @ - 1, !.pipe.in = @ + 1]
    /\ UNCHANGED <<argv, S, fs, pc, exitStatus, stdout, stderr, cmdline, cmdline2,
                   origScript, jobid, logf, fh, job>>

\* proc.stdin.close(), once the whole script is written
PipeClose ==
    /\ pc[1] = "feed"
    /\ proc.pipe.script = 0
    /\ proc' = [proc EXCEPT !.closed = TRUE]
    /\ pc' = [pc EXCEPT ![1] = "wait"]
    /\ UNCHANGED <<argv, S, fs, exitStatus, stdout, stderr, cmdline, cmdline2,
                   origScript, jobid, logf, fh, job>>

\* proc.wait(): returns when the child has ended
PipeWait ==
    /\ pc[1] = "wait"
    /\ proc.exited
    /\ pc' = [pc EXCEPT ![1] = "read"]
    /\ UNCHANGED <<argv, S, fs, exitStatus, stdout, stderr, cmdline, cmdline2,
                   origScript, proc, jobid, logf, fh, job>>

\* proc.stdout.readline() and proc.stderr.read(): the child has ended, so
\* neither waits; submitScript returns, or exits with status 2
PipeRead ==
    /\ pc[1] = "read"
    /\ proc' = [proc EXCEPT !.pipe.out = 0, !.pipe.err = 0]
    /\ pc' = [pc EXCEPT ![1] = "done"]
    /\ exitStatus' = [exitStatus EXCEPT ![1] = IF proc.pipe.err > 0 THEN 2 ELSE 0]
    /\ UNCHANGED <<argv, S, fs, stdout, stderr, cmdline, cmdline2,
                   origScript, jobid, logf, fh, job>>

\* what the child does after the phase it is in
NextPhase(order, phase) ==
    IF order = "readFirst"
    THEN (IF phase = "read" THEN "out" ELSE IF phase = "out" THEN "err" ELSE "exit")
    ELSE (IF phase = "out" THEN "err" ELSE IF phase = "err" THEN "read" ELSE "exit")

\* the child reads a unit of its stdin
ChildRead ==
    /\ proc.pipe.phase = "read"
    /\ proc.pipe.in > 0
    /\ proc' = [proc EXCEPT !.pipe.in = @ - 1]
    /\ UNCHANGED <<argv, S, fs, pc, exitStatus, stdout, stderr, cmdline, cmdline2,
                   origScript, jobid, logf, fh, job>>

\* the child reads the end of its stdin: the pipe is empty and closed
ChildEOF ==
    /\ proc.pipe.phase = "read"
    /\ proc.pipe.in = 0
    /\ proc.closed
    /\ proc' = [proc EXCEPT !.pipe.phase = NextPhase(proc.pipe.order, "read")]
    /\ UNCHANGED <<argv, S, fs, pc, exitStatus, stdout, stderr, cmdline, cmdline2,
                   origScript, jobid, logf, fh, job>>

\* the child writes a unit on its stdout, or has written all of it
ChildWriteOut ==
    /\ proc.pipe.phase = "out"
    /\ IF proc.pipe.toOut = 0
       THEN proc' = [proc EXCEPT !.pipe.phase = NextPhase(proc.pipe.order, "out")]
       ELSE /\ proc.pipe.out < proc.pipe.cap.out
            /\ proc' = [proc EXCEPT !.pipe.out = @ + 1, !.pipe.toOut = @ - 1]
    /\ UNCHANGED <<argv, S, fs, pc, exitStatus, stdout, stderr, cmdline, cmdline2,
                   origScript, jobid, logf, fh, job>>

\* the child writes a unit on its stderr, or has written all of it
ChildWriteErr ==
    /\ proc.pipe.phase = "err"
    /\ IF proc.pipe.toErr = 0
       THEN proc' = [proc EXCEPT !.pipe.phase = NextPhase(proc.pipe.order, "err")]
       ELSE /\ proc.pipe.err < proc.pipe.cap.err
            /\ proc' = [proc EXCEPT !.pipe.err = @ + 1, !.pipe.toErr = @ - 1]
    /\ UNCHANGED <<argv, S, fs, pc, exitStatus, stdout, stderr, cmdline, cmdline2,
                   origScript, jobid, logf, fh, job>>

\* the child ends
ChildExit ==
    /\ proc.pipe.phase = "exit"
    /\ proc' = [proc EXCEPT !.exited = TRUE, !.pipe.phase = "gone"]
    /\ UNCHANGED <<argv, S, fs, pc, exitStatus, stdout, stderr, cmdline, cmdline2,
                   origScript, jobid, logf, fh, job>>

\* the pipes and the child right after Popen: every capacity, every
\* length of script and of answer, both orders of the child
Pipes ==
    [cap : [in : 1..MaxPipe, out : 1..MaxPipe, err : 1..MaxPipe],
     script : 0..(MaxPipe + 1), in : {0}, out : {0}, err : {0},
     order : {"readFirst", "writeFirst"}, phase : {"start"},
     toOut : 0..(MaxPipe + 1), toErr : 0..(MaxPipe + 1)]

\* submitScript right after Popen
InitPipe ==
    \E pp \in Pipes :
        /\ argv = <<ScriptName>>
        /\ fs = Env(NoFile, "cwd", PlainScript, NoFile, FALSE, Accepted, TRUE)
        /\ S = [NewSubmit("slurm") EXCEPT !.trueArgs = <<ScriptName>>]
        /\ pc = [p \in Procs |-> IF p = 1 THEN "feed" ELSE "idle"]
        /\ exitStatus = [p \in Procs |-> -1]
        /\ stdout = << >>
        /\ stderr = [p \in Procs |-> << >>]
        /\ cmdline = << >>
        /\ cmdline2 = << >>
        /\ origScript = [p \in Procs |-> IF p = 1 THEN ScriptName ELSE << >>]
        /\ proc = [spawned |-> 1, cmdline |-> << >>, stdin |-> << >>, closed |-> FALSE,
                   exited |-> FALSE, out |-> << >>, err |-> << >>,
                   pipe |-> [pp EXCEPT !.phase = IF pp.order = "readFirst"
                                                 THEN "read" ELSE "out"]]
        /\ jobid = [p \in Procs |-> 0]
        /\ logf = [content |-> OldLog, holder |-> 0]
        /\ fh = [p \in Procs |-> [open |-> FALSE, buf |-> << >>]]
        /\ job = [state |-> "none", rc |-> 0, args |-> << >>, message |-> NoMessage]

NextPipe ==
    \/ PipeWrite
    \/ PipeClose
    \/ PipeWait
    \/ PipeRead
    \/ ChildRead
    \/ ChildEOF
    \/ ChildWriteOut
    \/ ChildWriteErr
    \/ ChildExit

SpecPipe == InitPipe /\ [][NextPipe]_vars

-----------------------------------------------------------------------------
(* Properties.                                                             *)

\* a row as a whole line: with its newline
Terminated(row) == IF row # << >> /\ row[Len(row)] = NL THEN row ELSE Append(row, NL)

\* the number of leading rows of a script that are header rows
RECURSIVE HeaderLen(_)
HeaderLen(rows) ==
    IF rows # << >> /\ Terminated(Head(rows)) \in {Shebang, Directive, Blank}
    THEN 1 + HeaderLen(Tail(rows))
    ELSE 0

Count(seq, x) == Cardinality({i \in DOMAIN seq : seq[i] = x})

\* the script has been written to the scheduler, decorated
Decorated == proc.closed /\ S.decorate

\* the header of the script is a shebang line followed by directive lines
\* only, and a body follows it
ShebangDirectiveHeader(rows) ==
    LET h == HeaderLen(rows) IN
    /\ h >= 1
    /\ h < Len(rows)
    /\ rows[1] = Shebang
    /\ \A i \in 2..h : rows[i] = Directive

\* C1: for a script whose header is a shebang line followed by directive
\* lines and whose body is not empty, the decorated script is the header
\* lines unchanged, then the instrumentation block once, right before the
\* first body line, then every body line unchanged as a line of its own
\* (also a last line without newline), and only then the trailer.
C1_BodyLinesWhole ==
    LET rows == Rows(fs.script)
        out == Rows(proc.stdin)
        h == HeaderLen(rows)
        nb == Len(rows) - h
        k == h + 6 + (IF S.fileArray # None THEN 1 ELSE 0)
    IN  (Decorated /\ ShebangDirectiveHeader(rows)) =>
            /\ Len(out) > k + nb
            /\ SubSeq(out, 1, h) = SubSeq(rows, 1, h)
            /\ out[h + 1] = <<NL>>
            /\ IsPrefix(<<"echo", SP, "%Commandline:">>, out[h + 2])
            /\ IsPrefix(<<"echo", SP, "%Started:">>, out[h + 3])
            /\ out[h + 4] = <<"_ORIG_PWD=$PWD", NL>>
            /\ IsPrefix(<<"_SUBMIT_TS=$(date">>, out[h + 5])
            /\ Count(out, <<"_ORIG_PWD=$PWD", NL>>) = 1
            /\ \A j \in 1..nb : out[k + j] = Terminated(rows[h + j])
            /\ out[k + nb + 1] = <<"_RETCODE=$?", NL>>

\* the object as parseArgs and readOptions leave it: the request that is
\* composed
Request ==
    readOptions(parseArgs(NewSubmit(ModeName(getMode(argv, fs.envMode))), argv, fs.fa).obj,
                fs.conf)

\* C2: the compose operation called twice on the same request returns the
\* same command both times and leaves the script argument, the positional
\* arguments and the exported variable names as they were before the
\* first call.
C2_ComposeTwice ==
    pc[1] = "composed2" =>
        /\ cmdline2 = cmdline
        /\ S.trueArgs = Request.trueArgs
        /\ S.varNames = Request.varNames

\* C3: a caller of writeLogEntry holds the lock until the last byte of its
\* record has reached the file (so its record is in the file once it has
\* released the lock), holds no lock when it has returned, and the file
\* is made of whole records only.
C3_LockCoversWrite ==
    /\ \A p \in Procs :
          (pc[p] = "close" /\ fh[p].open) => HasRow(logf.content, LogRecord(p))
    /\ \A p \in Procs : pc[p] = "done" => logf.holder # p
    /\ \A i \in DOMAIN Rows(logf.content) :
          \/ Rows(logf.content)[i] = OldLog
          \/ \E p \in Procs : Rows(logf.content)[i] = LogRecord(p)

\* the first line the scheduler wrote, without its line terminator
FirstLine == RStrip(readline(proc.out), {CR, NL})

\* submitScript has read the answer of the scheduler
AnswerRead == proc.exited /\ pc[1] # "read"

InSeq(seq, x) == \E i \in DOMAIN seq : seq[i] = x

\* C4: with an empty error channel submitScript returns the first output
\* line as an integer (12345 for the line 12345); with a non-empty error
\* channel the run writes the error text, ends with status 2 and neither
\* returns, prints nor logs a job id, whatever the output; an empty or
\* non-integer first line with an empty error channel ends the run with
\* an error message and a non-zero status.
C4_SubmitResult ==
    AnswerRead =>
        /\ (proc.err = << >> /\ ParseInt(FirstLine).ok) =>
              /\ jobid[1] = ParseInt(FirstLine).val
              /\ exitStatus[1] \in {-1, 0}
        /\ (proc.err = << >> /\ proc.out = <<"1", "2", "3", "4", "5", NL>>) =>
              jobid[1] = 12345
        /\ proc.err # << >> =>
              /\ pc[1] = "done"
              /\ exitStatus[1] = 2
              /\ InSeq(stderr[1], proc.err)
              /\ stdout = << >>
              /\ jobid[1] = 0
              /\ logf.content = OldLog
        /\ (proc.err = << >> /\ ~ParseInt(FirstLine).ok) =>
              /\ pc[1] = "done"
              /\ exitStatus[1] \notin {-1, 0}
              /\ stderr[1] # << >>
              /\ stdout = << >>
              /\ jobid[1] = 0
              /\ logf.content = OldLog

\* C4, witness: a run that got 12345 from the scheduler and returned it
C4_Witness ==
    /\ pc[1] = "done"
    /\ proc.err = << >>
    /\ proc.out = <<"1", "2", "3", "4", "5", NL>>
    /\ jobid[1] = 12345

\* C5: whenever notification was requested, with -M and with -m alike and
\* for any positional arguments, the self-invocation of the trailer passes
\* exactly six values to -em, in the order recipient, job id, return code,
\* elapsed seconds, the directory the instrumentation block captured, the
\* command line as one value, and sendNotification receives those six.
C5_SixValues ==
    /\ job.state = "calling" => Len(job.args) = 7
    /\ job.state = "notified" =>
          /\ ~job.message.raised
          /\ job.message.email = S.sendEmail
          /\ job.message.jobid = Str(jobid[1])
          /\ job.message.retcode = Str(job.rc)
          /\ ParseInt(job.message.seconds).ok
          /\ job.message.pwd = JobCwd
          /\ job.message.cmdline = Join(Request.trueArgs, <<SP>>)

\* the scheduler accepted the submission: an integer on the first output
\* line and nothing on the error channel
SchedulerAccepted == proc.exited /\ proc.err = << >> /\ ParseInt(FirstLine).ok

\* the records of the log for job id n: the rows whose second
\* tab-separated field (after the two fields of the timestamp) is n
RecordsFor(n) ==
    LET rows == Rows(logf.content) IN
    {i \in DOMAIN rows : Len(Split(rows[i], TAB)) = 6 /\ Split(rows[i], TAB)[3] = Str(n)}

AppendOnly == IsPrefix(OldLog, logf.content)

AfterScheduler == (stdout # << >> \/ logf.content # OldLog) => proc.exited

\* C8 as stated: every submission the scheduler answered with an integer
\* and no error text has that integer printed and exactly one record
\* appended, both after the scheduler has ended; every other run appends
\* nothing; what the log held is never changed.
C8_Original ==
    /\ AppendOnly
    /\ AfterScheduler
    /\ pc[1] = "done" =>
          IF SchedulerAccepted
          THEN /\ stdout = <<Str(ParseInt(FirstLine).val) \o <<NL>>>>
               /\ Cardinality(RecordsFor(ParseInt(FirstLine).val)) = 1
               /\ Len(Rows(logf.content)) = 2
          ELSE logf.content = OldLog

\* C8, amended: a positive job id is printed and, unless writeLogEntry
\* gave its warning, exactly one record for it is appended, both after the
\* scheduler has ended; a run that gave the warning, and every other run
\* (an id that is not positive, a rejection, a dry run, a failure before
\* submission) prints no id and appends nothing; what the log held is
\* never changed.
C8_PositiveIdLogged ==
    /\ AppendOnly
    /\ AfterScheduler
    /\ pc[1] = "done" =>
          IF SchedulerAccepted /\ ParseInt(FirstLine).val > 0
          THEN /\ stdout = <<Str(ParseInt(FirstLine).val) \o <<NL>>>>
               /\ IF InSeq(stderr[1], LogWarning)
                  THEN logf.content = OldLog
                  ELSE /\ Cardinality(RecordsFor(ParseInt(FirstLine).val)) = 1
                       /\ Len(Rows(logf.content)) = 2
          ELSE /\ logf.content = OldLog
               /\ stdout = << >>

\* C8, witness: a finished run whose id 12345 is printed and logged once
C8_Witness ==
    /\ pc[1] = "done"
    /\ stdout = <<<<"1", "2", "3", "4", "5", NL>>>>
    /\ Cardinality(RecordsFor(12345)) = 1

\* What the command line gives, read off argv: the script is the first
\* argument that is neither an option nor the value of one.
RECURSIVE ScriptIndex(_, _)
ScriptIndex(args, i) ==
    IF i > Len(args) THEN i
    ELSE IF args[i] \in {W("-W"), W("-n"), W("-x"), W("-d"), W("-dd")}
    THEN ScriptIndex(args, i + 1)
    ELSE IF args[i] \in valuedArgs /\ i < Len(args) THEN ScriptIndex(args, i + 2)
    ELSE i

GivenOptions == SubSeq(argv, 1, ScriptIndex(argv, 1) - 1)

GivenScript == argv[ScriptIndex(argv, 1)]

GivenArgs == SubSeq(argv, ScriptIndex(argv, 1) + 1, Len(argv))

\* the values given with the options of `flags`, in the order given
RECURSIVE ValuesOf(_, _, _)
ValuesOf(opts, flags, i) ==
    IF i >= Len(opts) THEN << >>
    ELSE IF opts[i] \in flags THEN <<opts[i + 1]>> \o ValuesOf(opts, flags, i + 2)
    ELSE ValuesOf(opts, flags, i + 1)

Given(flags) == ValuesOf(GivenOptions, flags, 1)

LastOf(seq) == IF seq = << >> THEN None ELSE seq[Len(seq)]

\* the text of cmd from position i up to the next space
RECURSIVE WordAt(_, _)
WordAt(cmd, i) ==
    IF i > Len(cmd) \/ cmd[i] = SP THEN << >> ELSE <<cmd[i]>> \o WordAt(cmd, i + 1)

IndexOf(cmd, c) == Find(cmd, c) + 1

\* the word that follows the flag c and a space
ValueAfter(cmd, c) == WordAt(cmd, IndexOf(cmd, c) + 2)

\* the -T/-A argument, when one was given
FileArg == LastOf(Given({W("-T"), W("-A")}))

NotZero(id) == id # W("0")

KeptIds == SelectSeq(Given({W("-after")}), NotZero)

Composed == pc[1] = "composed"

\* C6: after parsing, the dependency set is the ids given with -after
\* other than "0", in the order given; the composed command has a
\* dependency clause iff the set is not empty, and the clause is the ids
\* as afterok:<id>, joined by commas.  The scenario request (comment
\* run-42, queue bio, -after 100 -after 0) composes a command with the
\* comment clause once, the dependency clause afterok:100, the queue bio.
C6_Dependencies ==
    /\ pc[1] # "start" => S.afterArgs = KeptIds
    /\ (Composed /\ S.mode = "slurm") =>
          /\ Count(cmdline, "-d") = (IF KeptIds = << >> THEN 0 ELSE 1)
          /\ KeptIds # << >> =>
                ValueAfter(cmdline, "-d")
                    = Join([i \in DOMAIN KeptIds |-> <<"afterok:">> \o KeptIds[i]], <<COMMA>>)
    /\ (Composed /\ S.mode = "pbs") =>
          /\ Count(cmdline, "depend=") = (IF KeptIds = << >> THEN 0 ELSE 1)
          /\ KeptIds # << >> =>
                WordAt(cmdline, IndexOf(cmdline, "depend=") + 1)
                    = Join([i \in DOMAIN KeptIds |-> <<"afterok:">> \o KeptIds[i]], <<COMMA>>)
    /\ (Composed /\ argv = ScenarioArgv) =>
          /\ Count(cmdline, "--comment") = 1
          /\ ValueAfter(cmdline, "--comment") = <<DQ, "run-42", DQ>>
          /\ Count(cmdline, "-d") = 1
          /\ ValueAfter(cmdline, "-d") = <<"afterok:", "1", "0", "0">>
          /\ Count(cmdline, "-A") = 1
          /\ ValueAfter(cmdline, "-A") = W("bio")

\* C6, witness: the scenario request, composed
C6_Witness ==
    /\ Composed
    /\ argv = ScenarioArgv
    /\ S.afterArgs = <<<<"1", "0", "0">>>>

\* the -o values and -W flags of the command line as sbatch options, in
\* the order given
RECURSIVE OptionsGiven(_, _)
OptionsGiven(opts, i) ==
    IF i > Len(opts) THEN << >>
    ELSE IF opts[i] = W("-o") /\ i < Len(opts)
    THEN <<Replace(opts[i + 1], COMMA, SP)>> \o OptionsGiven(opts, i + 2)
    ELSE IF opts[i] = W("-W") THEN <<W("-W")>> \o OptionsGiven(opts, i + 1)
    ELSE IF opts[i] \in valuedArgs THEN OptionsGiven(opts, i + 2)
    ELSE OptionsGiven(opts, i + 1)

\* the clauses of the Slurm command for what the command line, the
\* configuration file and the directory give
ExpectedSlurm ==
    LET logdir == IF Given({W("-l")}) # << >> THEN LastOf(Given({W("-l")})) \o <<SLASH>>
                  ELSE IF fs.logIsDir THEN <<"log", SLASH>> ELSE << >>
        file == Basename(GivenScript)
        array == IF FileArg # None THEN S.array ELSE LastOf(Given({W("-t")}))
        comment == LastOf(Given({W("-p")}))
        queue == LastOf(Given({W("-q")}))
        conf == Replace(fs.conf.text, NL, SP)
        opts == OptionsGiven(GivenOptions, 1)
    IN  <<"sbatch", SP, "--parsable", SP, "-D", SP, DQ, "$(pwd)", DQ, SP, "-J", SP>>
        \o GivenScript
        \o (IF array # None
            THEN <<SP, "-o", SP>> \o logdir \o file \o <<".o%A_%a", SP, "-e", SP>>
                 \o logdir \o file \o <<".e%A_%a", SP, "-a", SP>> \o array
            ELSE <<SP, "-o", SP>> \o logdir \o file \o <<".IN.o%j", SP, "-e", SP>>
                 \o logdir \o file \o <<".IN.e%j">>)
        \o (IF comment # None THEN <<SP, "--comment", SP, DQ>> \o comment \o <<DQ>> ELSE << >>)
        \o (IF KeptIds # << >>
            THEN <<SP, "-d", SP>>
                 \o Join([i \in DOMAIN KeptIds |-> <<"afterok:">> \o KeptIds[i]], <<COMMA>>)
            ELSE << >>)
        \o (IF queue # None THEN <<SP, "-A", SP>> \o queue ELSE << >>)
        \o (IF conf # << >> THEN <<SP>> \o conf ELSE << >>)
        \o (IF opts # << >> THEN <<SP>> \o Join(opts, <<SP>>) ELSE << >>)
        \o <<SP, "/dev/stdin", SP>>

NoVariables == [v \in {} |-> << >>]

\* C7: the Slurm command is, in this order: sbatch with the directory flag
\* and -J and the script argument as given; the output and error files
\* (with -a and the array spec when there is one); the comment; the
\* dependencies; the queue; the options of the configuration file; the -o
\* options in the order given; /dev/stdin and the positional arguments
\* without the script name.  Each optional clause is there once when its
\* field is set and not at all otherwise.
C7_ClauseOrder ==
    (Composed /\ S.mode = "slurm") =>
        /\ IsPrefix(ExpectedSlurm, cmdline)
        /\ ShellWords(SubSeq(cmdline, Len(ExpectedSlurm) + 1, Len(cmdline)),
                      NoVariables, << >>) = GivenArgs
        /\ Count(cmdline, "--comment") = (IF Given({W("-p")}) # << >> THEN 1 ELSE 0)
        /\ Count(cmdline, "-a")
              = (IF Given({W("-t"), W("-T"), W("-A")}) # << >> THEN 1 ELSE 0)
        /\ Count(cmdline, "-A") = (IF Given({W("-q")}) # << >> THEN 1 ELSE 0)
        /\ Count(cmdline, "/dev/stdin") = 1

\* C7, witness: a composed request that has every clause
C7_Witness ==
    /\ Composed
    /\ argv = FullArgv
    /\ fs.conf.exists
    /\ fs.logIsDir

\* the number of lines of a text: the line terminators, and one more for
\* a last line that has none
LineCount(text) ==
    Count(text, NL) + (IF text # << >> /\ text[Len(text)] # NL THEN 1 ELSE 0)

\* parseArgs has returned and the -T/-A argument names an existing file
FileArrayParsed == pc[1] # "start" /\ FileArg # None /\ fs.fa.exists

\* the text up to the first % (all of it when there is none)
NameOf(arg) == IF Contains(arg, PCT) THEN SubSeq(arg, 1, Find(arg, PCT)) ELSE arg

\* everything from the first % on
SuffixOf(arg) ==
    IF Contains(arg, PCT) THEN SubSeq(arg, Find(arg, PCT) + 1, Len(arg)) ELSE << >>

\* the first % and the text up to the next %
LimitOf(arg) ==
    IF SuffixOf(arg) = << >> THEN << >> ELSE <<PCT>> \o NameOf(Tail(SuffixOf(arg)))

\* C9 as stated: when the -T/-A argument names an existing file of N
\* lines, the array spec is 1-N followed by everything of the argument
\* from its first % on, and the file-array field is the file name without
\* that suffix; for every N >= 0, every suffix, and with -t given as well.
C9_Original ==
    FileArrayParsed =>
        /\ S.array = <<"1", "-">> \o Str(LineCount(fs.fa.text)) \o SuffixOf(FileArg)
        /\ S.fileArray = NameOf(FileArg)

\* C9, amended: the array spec is 1-N followed by the first % of the
\* argument and the text up to its next % (nothing when the argument has
\* no %), and the file-array field is the text before the first %; for
\* every N >= 0 and with -t given as well.
C9_ArrayFromFile ==
    FileArrayParsed =>
        /\ S.array = <<"1", "-">> \o Str(LineCount(fs.fa.text)) \o LimitOf(FileArg)
        /\ S.fileArray = NameOf(FileArg)

\* C9, witness: -T list.txt%4 after -t, the file of two lines, array 1-2%4
C9_Witness ==
    /\ FileArrayParsed
    /\ Given({W("-t")}) # << >>
    /\ FileArg = <<"list.txt", PCT, "4">>
    /\ LineCount(fs.fa.text) = 2
    /\ S.array = <<"1", "-", "2", PCT, "4">>
    /\ S.fileArray = W("list.txt")

\* text has part as a contiguous piece
HasPiece(text, part) ==
    \E i \in 1..(Len(text) - Len(part) + 1) : SubSeq(text, i, i + Len(part) - 1) = part

\* main is past its compose step for a script that was found
PbsSubmitted == S.mode = "pbs" /\ origScript[1] # << >> /\ pc[1] # "resolved"

\* C10: in pbs mode, a script that resolves is composed into a qsub
\* command: -v lists args and arg1..argK, each once; the dependencies are
\* given as depend=afterok:..., the array with -t; the script is named by
\* its resolved path.
C10_PbsComposes ==
    PbsSubmitted =>
        /\ IsPrefix(<<"qsub", SP>>, cmdline)
        /\ ValueAfter(cmdline, "-v")
              = Join(<<W("args")>> \o [i \in 1..Len(GivenArgs) |-> <<"arg">> \o Str(i)],
                     <<COMMA>>)
        /\ Count(cmdline, "depend=") = (IF KeptIds # << >> THEN 1 ELSE 0)
        /\ Count(cmdline, "-t")
              = (IF Given({W("-t"), W("-T"), W("-A")}) # << >> THEN 1 ELSE 0)
        /\ HasPiece(cmdline, <<SP>> \o origScript[1])

\* -x was given among the options
DryGiven == InSeq(GivenOptions, W("-x"))

\* some line written to standard output or to the diagnostic stream
\* holds the text
Printed(text) ==
    \/ \E i \in DOMAIN stdout : HasPiece(stdout[i], text)
    \/ \E i \in DOMAIN stderr[1] : HasPiece(stderr[1][i], text)

\* main has returned after composing a command
ComposedAndReturned == pc[1] = "done" /\ exitStatus[1] = 0 /\ cmdline # << >>

\* C11: with -x, whatever the other options (also without -d/-dd), the
\* run prints the composed command and does not execute it: no scheduler
\* process is spawned, no job id is printed, no record is appended.
C11_DryRunPrints ==
    DryGiven =>
        /\ proc.spawned = 0
        /\ jobid[1] = 0
        /\ \A i \in DOMAIN stdout : ~ParseInt(RStrip(stdout[i], {NL})).ok
        /\ logf.content = OldLog
        /\ ComposedAndReturned => Printed(cmdline)

\* writeLogEntry gave its warning
LogWarned == InSeq(stderr[1], LogWarning)

\* C12: when the log cannot be opened, locked or written, writeLogEntry
\* writes its warning and returns: the job id has been printed already,
\* the run ends with no error status, as a successful submission, and the
\* scheduler was spawned once only; and a printed job id whose record is
\* not in the log at the end of the run has had the warning.
C12_LogFailureNonFatal ==
    /\ LogWarned =>
          /\ pc[1] = "done"
          /\ exitStatus[1] = 0
          /\ jobid[1] > 0
          /\ stdout = <<Str(jobid[1]) \o <<NL>>>>
          /\ proc.spawned = 1
          /\ Count(stderr[1], LogWarning) = 1
    /\ (pc[1] = "done" /\ stdout # << >> /\ RecordsFor(jobid[1]) = {}) => LogWarned

\* C12, witness: a run that printed 12345 and could not write the log
C12_Witness ==
    /\ LogWarned
    /\ pc[1] = "done"
    /\ stdout = <<<<"1", "2", "3", "4", "5", NL>>>>
    /\ logf.content = OldLog

\* every row of the script is a header row
HeaderOnly(rows) == HeaderLen(rows) = Len(rows)

\* a line of the instrumentation block
InstrumentationRow(row) ==
    \/ IsPrefix(<<"echo", SP, "%Commandline:">>, row)
    \/ IsPrefix(<<"echo", SP, "%Started:">>, row)
    \/ IsPrefix(<<"_ORIG_PWD=$PWD">>, row)
    \/ IsPrefix(<<"_SUBMIT_TS=$(date">>, row)
    \/ IsPrefix(<<"JOB_FILEARRAY_ARGS=($(sed">>, row)
    \/ IsPrefix(<<"JOB_FILEARRAY_LINE=$(sed">>, row)

\* C13: for a script of header lines only (empty lines, shebang lines,
\* directive lines) the decorated script is the header lines unchanged
\* and then the trailer alone: the exit-code capture, the done-file write
\* when asked for, the Terminated echo, the elapsed report, the
\* notification when asked for, the final exit; no line of the
\* instrumentation block is written.
C13_HeaderOnly ==
    LET rows == Rows(fs.script)
        out == Rows(proc.stdin)
        n == Len(rows)
        d == IF Given({W("-done")}) # << >> THEN 1 ELSE 0
        e == IF Given({W("-m"), W("-M")}) # << >> THEN 1 ELSE 0
    IN  (Decorated /\ HeaderOnly(rows)) =>
            /\ Len(out) = n + 5 + d + e
            /\ SubSeq(out, 1, n) = rows
            /\ out[n + 1] = <<"_RETCODE=$?", NL>>
            /\ d = 1 => IsPrefix(<<"echo", SP, "$_RETCODE", SP, ">">>, out[n + 2])
            /\ IsPrefix(<<"echo", SP, "%Terminated:">>, out[n + 2 + d])
            /\ IsPrefix(<<"_SUBMIT_TS2=$(date">>, out[n + 3 + d])
            /\ IsPrefix(<<"echo", SP, "%Elapsed:">>, out[n + 4 + d])
            /\ e = 1 => HasPiece(out[n + 5 + d], <<"/submit", SP, "-em">>)
            /\ out[Len(out)] = <<"exit", SP, "$_RETCODE", NL>>
            /\ \A i \in DOMAIN out : ~InstrumentationRow(out[i])

\* the parent waits: for room in the child's stdin, or for the child to end
ParentBlocked ==
    \/ pc[1] = "feed" /\ proc.pipe.script > 0 /\ proc.pipe.in = proc.pipe.cap.in
    \/ pc[1] = "wait" /\ ~proc.exited

\* the child waits: for input, or for room in its stdout or stderr
ChildBlocked ==
    \/ proc.pipe.phase = "read" /\ proc.pipe.in = 0 /\ ~proc.closed
    \/ proc.pipe.phase = "out" /\ proc.pipe.toOut > 0 /\ proc.pipe.out = proc.pipe.cap.out
    \/ proc.pipe.phase = "err" /\ proc.pipe.toErr > 0 /\ proc.pipe.err = proc.pipe.cap.err

\* C14: for every capacity of the three pipes and every amount of text
\* the scheduler writes on its output and error channels, submitScript
\* and the scheduler process are never both waiting.
C14_NoDeadlock == ~(ParentBlocked /\ ChildBlocked)

====
